---- MODULE Spec2Model ----
(***************************************************************************)
(* Model of the collaborative whiteboard service of PromptAlchemy          *)
(* (src/server/services/whiteboard.ts, class WhiteboardService).           *)
(*                                                                         *)
(* The service keeps a Map of sessions and an array of registered          *)
(* clients.  Every inbound WebSocket frame is handled to completion on     *)
(* the Node event loop, so one handler invocation is one atomic action.    *)
(* IdeaNode is projected on the fields the handlers inspect (id,           *)
(* connections, votes); WhiteboardUser on id and cursor.                   *)
(***************************************************************************)
EXTENDS Integers, Sequences, FiniteSets, TLC

\* ---------------------------------------------------------------- bounds
MaxClock == 3    \* frames and close events handled in a behaviour

\* ------------------------------------------------------------- constants
DemoSessionId == "demo-session"
DemoVotes1    == 3
DemoVotes2    == 2

SessionIds == {DemoSessionId, "s1"}
UserIds    == {"u1", "u2"}
IdeaIds    == {"idea1", "idea2", "idea3"}
Sockets    == {1, 2}

\* cursor positions <<x, y>> a cursor-move may carry; <<>> is "no cursor yet"
CursorPoints == {<<1, 1>>}
NoCursor     == <<>>

\* connections arrays an add-idea / update-idea payload may carry: empty, an
\* id the demo session lacks, and one id repeated
PayloadConnections == {<<>>, <<"idea3">>, <<"idea1", "idea1">>}

\* the ideas an add-idea may carry (the client sends votes: 0)
PayloadIdeas ==
  {[id |-> i, connections |-> c, votes |-> 0] : i \in IdeaIds, c \in PayloadConnections}

\* the Partial<IdeaNode> an update-idea may carry; text stands for the
\* fields outside the projection (text, x, y, color, isSelected)
PayloadUpdates ==
  {[text |-> "t"], [votes |-> 0]}
    \cup {[connections |-> c] : c \in PayloadConnections}
    \cup {[id |-> "idea3"]}

VARIABLES
  sessions,    \* Map<string, WhiteboardSession>: function on the ids present
  clients,     \* ConnectedClient[]: sequence of [ws, userId, sessionId]
  readyState,  \* per socket: "none" (not yet accepted), "open", "closing", "closed"
  clock,       \* the wall clock read by new Date(): one tick per handled frame or close
  last,        \* the event handled by the latest step
  sent,        \* the frames written by the latest step, in send order
  log,         \* per socket: a tag for every frame written to it, in ws.send order
  inbox,       \* the frames written to the hook's socket that onmessage has yet to handle
  replica,     \* the hook's currentSessionId and state.session (its ideas)
  hook         \* the hook's wsRef, status and pending reconnect timer

vars == <<sessions, clients, readyState, clock, last, sent, log, inbox, replica, hook>>

\* ------------------------------------------------------- array utilities
\* mutant of FilterClients: the exclusion test without its negation
RECURSIVE FilterClients_Inverted(_, _, _)
FilterClients_Inverted(cs, sessionId, excludeUserIds) ==
  IF cs = <<>> THEN <<>>
  ELSE LET c    == Head(cs)
           rest == FilterClients_Inverted(Tail(cs), sessionId, excludeUserIds)
       IN IF c.sessionId = sessionId /\ c.userId \in excludeUserIds
          THEN <<c>> \o rest ELSE rest

\* Array.prototype.filter on a sequence of client entries
RECURSIVE FilterClients(_, _, _)
FilterClients(cs, sessionId, excludeUserIds) ==
  IF cs = <<>> THEN <<>>
  ELSE LET c    == Head(cs)
           rest == FilterClients(Tail(cs), sessionId, excludeUserIds)
       IN IF c.sessionId = sessionId /\ c.userId \notin excludeUserIds
          THEN <<c>> \o rest ELSE rest

\* Array.prototype.filter(x => x !== id) on a connections array
RECURSIVE Without(_, _)
Without(conns, id) ==
  IF conns = <<>> THEN <<>>
  ELSE IF Head(conns) = id THEN Without(Tail(conns), id)
       ELSE <<Head(conns)>> \o Without(Tail(conns), id)

\* Array.prototype.includes
Includes(conns, id) == \E i \in 1..Len(conns) : conns[i] = id

\* Array.prototype.findIndex(idea => idea.id === id), 1-based; 0 when absent
FindIndex(ideas, id) ==
  IF \E i \in 1..Len(ideas) : ideas[i].id = id
  THEN CHOOSE i \in 1..Len(ideas) :
         /\ ideas[i].id = id
         /\ \A j \in 1..(i - 1) : ideas[j].id # id
  ELSE 0

\* clients.find(client => client.ws === ws), 1-based; 0 when absent
FindClientByWs(cs, w) ==
  IF \E i \in 1..Len(cs) : cs[i].ws = w
  THEN CHOOSE i \in 1..Len(cs) :
         /\ cs[i].ws = w
         /\ \A j \in 1..(i - 1) : cs[j].ws # w
  ELSE 0

\* clients.find(client => client.userId === u && client.sessionId === s)
FindClientByUser(cs, u, s) ==
  IF \E i \in 1..Len(cs) : cs[i].userId = u /\ cs[i].sessionId = s
  THEN CHOOSE i \in 1..Len(cs) :
         /\ cs[i].userId = u /\ cs[i].sessionId = s
         /\ \A j \in 1..(i - 1) : ~(cs[j].userId = u /\ cs[j].sessionId = s)
  ELSE 0

\* ------------------------------------------------------------- broadcast
\* mutant of SendAll: the loop ends at the first socket that is not OPEN
RECURSIVE SendAll_StopAtClosed(_, _, _)
SendAll_StopAtClosed(cs, rs, ev) ==
  IF cs = <<>> THEN <<>>
  ELSE IF rs[Head(cs).ws] = "open"
       THEN <<[to |-> Head(cs).ws, ev |-> ev]>> \o SendAll_StopAtClosed(Tail(cs), rs, ev)
       ELSE <<>>

\* broadcastToSession: the frames written, one per registered entry of the
\* session that is not excluded and whose socket is OPEN, in registry order
RECURSIVE SendAll(_, _, _)
SendAll(cs, rs, ev) ==
  IF cs = <<>> THEN <<>>
  ELSE IF rs[Head(cs).ws] = "open"
       THEN <<[to |-> Head(cs).ws, ev |-> ev]>> \o SendAll(Tail(cs), rs, ev)
       ELSE SendAll(Tail(cs), rs, ev)

\* mutant of broadcastToSession: the filter ignores the session id
broadcastToSession_AnySession(cs, rs, sessionId, ev, excludeUserIds) ==
  SendAll(SelectSeq(cs, LAMBDA c : c.userId \notin excludeUserIds), rs, ev)

broadcastToSession(cs, rs, sessionId, ev, excludeUserIds) ==
  SendAll(FilterClients(cs, sessionId, excludeUserIds), rs, ev)

\* ------------------------------------------------------------- directory
\* mutant of getSessions: ideaCount counts the distinct idea ids
getSessions_DistinctIds(ss) ==
  [s \in DOMAIN ss |-> [userCount |-> Cardinality(DOMAIN ss[s].users),
                        ideaCount |-> Cardinality({ss[s].ideas[i].id : i \in 1..Len(ss[s].ideas)}),
                        lastActive |-> ss[s].lastActive]]

\* getSessions: the summary of every session, computed from the live Map
getSessions(ss) ==
  [s \in DOMAIN ss |-> [userCount |-> Cardinality(DOMAIN ss[s].users),
                        ideaCount |-> Len(ss[s].ideas),
                        lastActive |-> ss[s].lastActive]]

\* the sessions-list pushed by the connection handler (no lastActive)
sessionsList(ss) ==
  [s \in DOMAIN ss |-> [userCount |-> Cardinality(DOMAIN ss[s].users),
                        ideaCount |-> Len(ss[s].ideas)]]

\* ------------------------------------------------------------------ Init
\* the user id the page passes to useWhiteboardConnection(userId)
HookUser == "u1"

\* currentSessionId = useRef(null) and state.session = null; joins counts
\* the calls of joinSession that sent a join
\* state.session of the hook: null, or the session last put there
NullSession == [set |-> FALSE, ideas |-> <<>>]
NoReplica == [current |-> "none", session |-> NullSession, joins |-> 0]

\* the hook before its effect has run: wsRef.current is null (0), no
\* reconnect timer is pending (0)
NoHook == [ws |-> 0, status |-> "disconnected", timer |-> 0]

\* the service on its own: no channel is logged and no hook runs
Idle == UNCHANGED <<log, inbox, replica, hook>>

NoUsers == [u \in {} |-> [cursor |-> NoCursor]]

createDemoSession ==
  [ideas |-> << [id |-> "idea1", connections |-> <<"idea2">>, votes |-> DemoVotes1],
                [id |-> "idea2", connections |-> <<"idea1">>, votes |-> DemoVotes2] >>,
   users |-> NoUsers,
   lastActive |-> 0]

Init ==
  /\ sessions = [s \in {DemoSessionId} |-> createDemoSession]
  /\ clients = <<>>
  /\ readyState = [w \in Sockets |-> "none"]
  /\ clock = 0
  /\ last = [type |-> "init"]
  /\ sent = <<>>
  /\ log = [w \in Sockets |-> <<>>]
  /\ inbox = <<>>
  /\ replica = NoReplica
  /\ hook = NoHook

\* every frame and every close event is handled at a later reading of the clock
Tick == clock < MaxClock /\ clock' = clock + 1

\* the Map after sessions.get(s) has been mutated to v
SetSession(ss, s, v) == [x \in DOMAIN ss \cup {s} |-> IF x = s THEN v ELSE ss[x]]

\* ----------------------------------------------------- transport events
\* wss.on("connection"): a new socket is accepted and gets the sessions list
Connect(w) ==
  /\ readyState[w] = "none"
  /\ \A v \in Sockets : v < w => readyState[v] # "none"
  /\ readyState' = [readyState EXCEPT ![w] = "open"]
  /\ sent' = << [to |-> w, ev |-> [type |-> "sessions-list", sessions |-> sessionsList(sessions)]] >>
  /\ last' = [type |-> "connection", ws |-> w]
  /\ UNCHANGED <<sessions, clients, clock>>

\* the peer starts closing: readyState leaves OPEN before "close" is emitted
BeginClose(w) ==
  /\ readyState[w] = "open"
  /\ readyState' = [readyState EXCEPT ![w] = "closing"]
  /\ sent' = <<>>
  /\ last' = [type |-> "closing", ws |-> w]
  /\ UNCHANGED <<sessions, clients, clock>>

\* ------------------------------------------------- session state model
\* handleJoin: sessions.get(sessionId), or the fresh session it creates
getOrCreate(ss, s, now) ==
  IF s \in DOMAIN ss THEN ss[s]
  ELSE [ideas |-> <<>>, users |-> NoUsers, lastActive |-> now]

\* session.users[user.id] = user
UpsertUser(users, u) ==
  [x \in DOMAIN users \cup {u} |-> IF x = u THEN [cursor |-> NoCursor] ELSE users[x]]

\* delete session.users[userId]
RemoveUser(users, u) == [x \in DOMAIN users \ {u} |-> users[x]]

\* handleDeleteIdea: drop the ideas with that id, then strip the id from
\* the connections of the ideas that remain
RECURSIVE DeleteIdeaIdeas(_, _)
DeleteIdeaIdeas(ideas, ideaId) ==
  IF ideas = <<>> THEN <<>>
  ELSE IF Head(ideas).id = ideaId THEN DeleteIdeaIdeas(Tail(ideas), ideaId)
       ELSE <<[Head(ideas) EXCEPT !.connections = Without(@, ideaId)]>>
              \o DeleteIdeaIdeas(Tail(ideas), ideaId)

\* idea.connections.push(id) unless it is included, on the idea at index i
PushConnection(ideas, i, id) ==
  IF i = 0 \/ Includes(ideas[i].connections, id) THEN ideas
  ELSE [ideas EXCEPT ![i].connections = Append(@, id)]

\* mutant of CanAddConnection: only the source idea is looked up
CanAddConnection_SourceOnly(ideas, sourceId, targetId) ==
  FindIndex(ideas, sourceId) # 0

\* handleAddConnection guard: if (sourceIdea && targetIdea)
CanAddConnection(ideas, sourceId, targetId) ==
  FindIndex(ideas, sourceId) # 0 /\ FindIndex(ideas, targetId) # 0

\* mutant of AddConnectionIdeas: the reverse push is missing
AddConnectionIdeas_OneWay(ideas, sourceId, targetId) ==
  PushConnection(ideas, FindIndex(ideas, sourceId), targetId)

\* handleAddConnection body: the two pushes, in order, on the found ideas
AddConnectionIdeas(ideas, sourceId, targetId) ==
  LET afterSource == PushConnection(ideas, FindIndex(ideas, sourceId), targetId)
  IN PushConnection(afterSource, FindIndex(ideas, targetId), sourceId)

\* idea.connections = idea.connections.filter(x => x !== id), on index i
FilterConnection(ideas, i, id) ==
  IF i = 0 THEN ideas
  ELSE [ideas EXCEPT ![i].connections = Without(@, id)]

\* handleRemoveConnection body
RemoveConnectionIdeas(ideas, sourceId, targetId) ==
  LET afterSource == FilterConnection(ideas, FindIndex(ideas, sourceId), targetId)
  IN FilterConnection(afterSource, FindIndex(ideas, targetId), sourceId)

\* { ...idea, ...updates } on the projected fields
MergeIdea(idea, updates) ==
  [id          |-> IF "id" \in DOMAIN updates THEN updates.id ELSE idea.id,
   connections |-> IF "connections" \in DOMAIN updates THEN updates.connections
                   ELSE idea.connections,
   votes       |-> IF "votes" \in DOMAIN updates THEN updates.votes ELSE idea.votes]

\* handleUpdateIdea body on the idea found at ideaIndex
UpdateIdeaIdeas(ideas, ideaId, updates) ==
  LET ideaIndex == FindIndex(ideas, ideaId)
  IN IF ideaIndex = 0 THEN ideas
     ELSE [ideas EXCEPT ![ideaIndex] = MergeIdea(@, updates)]

\* mutant of VoteIdeas: the increment is applied to every idea
VoteIdeas_All(ideas, ideaId) ==
  [i \in 1..Len(ideas) |-> [ideas[i] EXCEPT !.votes = @ + 1]]

\* handleVote body: idea.votes += 1 on the idea found
VoteIdeas(ideas, ideaId) ==
  LET i == FindIndex(ideas, ideaId)
  IN IF i = 0 THEN ideas ELSE [ideas EXCEPT ![i].votes = @ + 1]

\* ------------------------------------------------------------- handlers
\* a frame is handled only while its socket delivers "message" events
Receives(w) == Tick /\ readyState[w] = "open"

\* handleJoin
Join(w, s, u) ==
  /\ Receives(w)
  /\ LET session   == getOrCreate(sessions, s, clock')
         joined    == [session EXCEPT !.users = UpsertUser(@, u)]
         registry  == Append(clients, [ws |-> w, userId |-> u, sessionId |-> s])
         snapshot  == [to |-> w, ev |-> [type |-> "session-state", sessionId |-> s,
                                         state |-> joined]]
     IN /\ sessions' = SetSession(sessions, s, joined)
        /\ clients' = registry
        /\ sent' = <<snapshot>> \o
                     broadcastToSession(registry, readyState, s,
                        [type |-> "user-joined", sessionId |-> s, user |-> u], {u})
  /\ last' = [type |-> "join", ws |-> w, sessionId |-> s, userId |-> u]
  /\ UNCHANGED readyState

\* handleJoin on a join message without a user object: the session is looked
\* up and, when absent, created and stored; user.isActive = true then throws
\* a TypeError, which the catch of the message handler answers
JoinNoUser(w, s) ==
  /\ Receives(w)
  /\ sessions' = SetSession(sessions, s, getOrCreate(sessions, s, clock'))
  /\ sent' = << [to |-> w, ev |-> [type |-> "error", error |-> "Invalid message format"]] >>
  /\ last' = [type |-> "join-no-user", ws |-> w, sessionId |-> s]
  /\ UNCHANGED <<clients, readyState>>

\* handleUserLeave(client): the Map after the user has been removed
UserLeaveSessions(ss, client) ==
  IF client.sessionId \in DOMAIN ss
  THEN [ss EXCEPT ![client.sessionId].users = RemoveUser(@, client.userId)]
  ELSE ss

\* handleUserLeave(client): the frames of its user-left broadcast
UserLeaveFrames(ss, cs, rs, client) ==
  IF client.sessionId \in DOMAIN ss
  THEN broadcastToSession(cs, rs, client.sessionId,
          [type |-> "user-left", sessionId |-> client.sessionId,
           userId |-> client.userId], {})
  ELSE <<>>

\* handleMessage, case "leave"
Leave(w, s, u) ==
  /\ Receives(w)
  /\ LET i == FindClientByUser(clients, u, s)
     IN IF i # 0
        THEN /\ sessions' = UserLeaveSessions(sessions, clients[i])
             /\ sent' = UserLeaveFrames(sessions, clients, readyState, clients[i])
        ELSE /\ sessions' = sessions
             /\ sent' = <<>>
  /\ last' = [type |-> "leave", ws |-> w, sessionId |-> s, userId |-> u]
  /\ UNCHANGED <<clients, readyState>>

\* clients.filter(client => client.ws !== ws)
RECURSIVE Unregister(_, _)
Unregister(cs, w) ==
  IF cs = <<>> THEN <<>>
  ELSE IF Head(cs).ws = w THEN Unregister(Tail(cs), w)
       ELSE <<Head(cs)>> \o Unregister(Tail(cs), w)

\* ws.on("close"): readyState is CLOSED when the handler runs
Close(w) ==
  /\ Tick
  /\ readyState[w] \in {"open", "closing"}
  /\ readyState' = [readyState EXCEPT ![w] = "closed"]
  /\ LET i == FindClientByWs(clients, w)
     IN IF i # 0
        THEN /\ sessions' = UserLeaveSessions(sessions, clients[i])
             /\ sent' = UserLeaveFrames(sessions, clients, readyState', clients[i])
             /\ last' = [type |-> "close", ws |-> w, registered |-> TRUE,
                         sessionId |-> clients[i].sessionId,
                         userId |-> clients[i].userId]
        ELSE /\ sessions' = sessions
             /\ sent' = <<>>
             /\ last' = [type |-> "close", ws |-> w, registered |-> FALSE]
  /\ clients' = Unregister(clients, w)

\* handleCursorMove
CursorMove(w, s, u, pt) ==
  /\ Receives(w)
  /\ IF s \in DOMAIN sessions /\ u \in DOMAIN sessions[s].users
     THEN /\ sessions' = [sessions EXCEPT ![s].users[u].cursor = pt]
          /\ sent' = broadcastToSession(clients, readyState, s,
                        [type |-> "cursor-move", sessionId |-> s, userId |-> u,
                         cursor |-> pt], {u})
     ELSE /\ sessions' = sessions
          /\ sent' = <<>>
  /\ last' = [type |-> "cursor-move", ws |-> w, sessionId |-> s, userId |-> u]
  /\ UNCHANGED <<clients, readyState>>

\* mutant of AddIdea: the broadcast skips the sending socket
AddIdea_NotToSender(w, s, idea) ==
  /\ Receives(w)
  /\ IF s \in DOMAIN sessions
     THEN /\ sessions' = [sessions EXCEPT ![s].ideas = Append(@, idea),
                                          ![s].lastActive = clock']
          /\ sent' = SelectSeq(broadcastToSession(clients, readyState, s,
                        [type |-> "idea-added", sessionId |-> s, idea |-> idea], {}),
                        LAMBDA f : f.to # w)
     ELSE /\ sessions' = sessions
          /\ sent' = <<>>
  /\ last' = [type |-> "add-idea", ws |-> w, sessionId |-> s, ideaId |-> idea.id]
  /\ UNCHANGED <<clients, readyState>>

\* handleAddIdea
AddIdea(w, s, idea) ==
  /\ Receives(w)
  /\ IF s \in DOMAIN sessions
     THEN /\ sessions' = [sessions EXCEPT ![s].ideas = Append(@, idea),
                                          ![s].lastActive = clock']
          /\ sent' = broadcastToSession(clients, readyState, s,
                        [type |-> "idea-added", sessionId |-> s, idea |-> idea], {})
     ELSE /\ sessions' = sessions
          /\ sent' = <<>>
  /\ last' = [type |-> "add-idea", ws |-> w, sessionId |-> s, ideaId |-> idea.id]
  /\ UNCHANGED <<clients, readyState>>

\* handleDeleteIdea
DeleteIdea(w, s, ideaId) ==
  /\ Receives(w)
  /\ IF s \in DOMAIN sessions
     THEN /\ sessions' = [sessions EXCEPT ![s].ideas = DeleteIdeaIdeas(@, ideaId),
                                          ![s].lastActive = clock']
          /\ sent' = broadcastToSession(clients, readyState, s,
                        [type |-> "idea-deleted", sessionId |-> s, ideaId |-> ideaId], {})
     ELSE /\ sessions' = sessions
          /\ sent' = <<>>
  /\ last' = [type |-> "delete-idea", ws |-> w, sessionId |-> s, ideaId |-> ideaId]
  /\ UNCHANGED <<clients, readyState>>

\* handleUpdateIdea
UpdateIdea(w, s, ideaId, updates) ==
  /\ Receives(w)
  /\ IF s \in DOMAIN sessions /\ FindIndex(sessions[s].ideas, ideaId) # 0
     THEN /\ sessions' = [sessions EXCEPT ![s].ideas = UpdateIdeaIdeas(@, ideaId, updates),
                                          ![s].lastActive = clock']
          /\ sent' = broadcastToSession(clients, readyState, s,
                        [type |-> "idea-updated", sessionId |-> s, ideaId |-> ideaId,
                         updates |-> updates], {})
     ELSE /\ sessions' = sessions
          /\ sent' = <<>>
  /\ last' = [type |-> "update-idea", ws |-> w, sessionId |-> s, ideaId |-> ideaId]
  /\ UNCHANGED <<clients, readyState>>

\* handleAddConnection
AddConnection(w, s, sourceId, targetId) ==
  /\ Receives(w)
  /\ IF s \in DOMAIN sessions /\ CanAddConnection(sessions[s].ideas, sourceId, targetId)
     THEN /\ sessions' = [sessions EXCEPT
                            ![s].ideas = AddConnectionIdeas(@, sourceId, targetId),
                            ![s].lastActive = clock']
          /\ sent' = broadcastToSession(clients, readyState, s,
                        [type |-> "connection-added", sessionId |-> s,
                         sourceId |-> sourceId, targetId |-> targetId], {})
     ELSE /\ sessions' = sessions
          /\ sent' = <<>>
  /\ last' = [type |-> "add-connection", ws |-> w, sessionId |-> s,
              sourceId |-> sourceId, targetId |-> targetId]
  /\ UNCHANGED <<clients, readyState>>

\* handleRemoveConnection
RemoveConnection(w, s, sourceId, targetId) ==
  /\ Receives(w)
  /\ IF s \in DOMAIN sessions
     THEN /\ sessions' = [sessions EXCEPT
                            ![s].ideas = RemoveConnectionIdeas(@, sourceId, targetId),
                            ![s].lastActive = clock']
          /\ sent' = broadcastToSession(clients, readyState, s,
                        [type |-> "connection-removed", sessionId |-> s,
                         sourceId |-> sourceId, targetId |-> targetId], {})
     ELSE /\ sessions' = sessions
          /\ sent' = <<>>
  /\ last' = [type |-> "remove-connection", ws |-> w, sessionId |-> s,
              sourceId |-> sourceId, targetId |-> targetId]
  /\ UNCHANGED <<clients, readyState>>

\* handleVote
Vote(w, s, ideaId, u) ==
  /\ Receives(w)
  /\ IF s \in DOMAIN sessions /\ FindIndex(sessions[s].ideas, ideaId) # 0
     THEN LET ideas == VoteIdeas(sessions[s].ideas, ideaId)
          IN /\ sessions' = [sessions EXCEPT ![s].ideas = ideas,
                                             ![s].lastActive = clock']
             /\ sent' = broadcastToSession(clients, readyState, s,
                           [type |-> "idea-voted", sessionId |-> s, ideaId |-> ideaId,
                            userId |-> u,
                            newVoteCount |-> ideas[FindIndex(ideas, ideaId)].votes], {})
     ELSE /\ sessions' = sessions
          /\ sent' = <<>>
  /\ last' = [type |-> "vote", ws |-> w, sessionId |-> s, ideaId |-> ideaId,
              userId |-> u]
  /\ UNCHANGED <<clients, readyState>>

\* ws.on("message"): JSON.parse throws, the catch replies to the sender
BadFrame(w) ==
  /\ Receives(w)
  /\ sent' = << [to |-> w, ev |-> [type |-> "error", error |-> "Invalid message format"]] >>
  /\ last' = [type |-> "bad-frame", ws |-> w]
  /\ UNCHANGED <<sessions, clients, readyState>>

\* mutant of UnknownType: the error goes to every open socket
UnknownType_Broadcast(w) ==
  /\ Receives(w)
  /\ sent' = SendAll([v \in 1..Cardinality(Sockets) |-> [ws |-> v]], readyState,
                     [type |-> "error", error |-> "Unknown message type"])
  /\ last' = [type |-> "unknown-type", ws |-> w]
  /\ UNCHANGED <<sessions, clients, readyState>>

\* handleMessage, default case
UnknownType(w) ==
  /\ Receives(w)
  /\ sent' = << [to |-> w, ev |-> [type |-> "error", error |-> "Unknown message type"]] >>
  /\ last' = [type |-> "unknown-type", ws |-> w]
  /\ UNCHANGED <<sessions, clients, readyState>>

Next ==
  \/ \E w \in Sockets : Connect(w) /\ Idle
  \/ \E w \in Sockets : BeginClose(w) /\ Idle
  \/ \E w \in Sockets : Close(w) /\ Idle
  \/ \E w \in Sockets, s \in SessionIds, u \in UserIds : Join(w, s, u) /\ Idle
  \/ \E w \in Sockets, s \in SessionIds : JoinNoUser(w, s) /\ Idle
  \/ \E w \in Sockets, s \in SessionIds, u \in UserIds : Leave(w, s, u) /\ Idle
  \/ \E w \in Sockets, s \in SessionIds, u \in UserIds, pt \in CursorPoints :
        CursorMove(w, s, u, pt) /\ Idle
  \/ \E w \in Sockets, s \in SessionIds, idea \in PayloadIdeas : AddIdea(w, s, idea) /\ Idle
  \/ \E w \in Sockets, s \in SessionIds, i \in IdeaIds : DeleteIdea(w, s, i) /\ Idle
  \/ \E w \in Sockets, s \in SessionIds, i \in IdeaIds, up \in PayloadUpdates :
        UpdateIdea(w, s, i, up) /\ Idle
  \/ \E w \in Sockets, s \in SessionIds, a \in IdeaIds, b \in IdeaIds :
        AddConnection(w, s, a, b) /\ Idle
  \/ \E w \in Sockets, s \in SessionIds, a \in IdeaIds, b \in IdeaIds :
        RemoveConnection(w, s, a, b) /\ Idle
  \/ \E w \in Sockets, s \in SessionIds, i \in IdeaIds, u \in UserIds :
        Vote(w, s, i, u) /\ Idle
  \/ \E w \in Sockets : BadFrame(w) /\ Idle
  \/ \E w \in Sockets : UnknownType(w) /\ Idle

Spec == Init /\ [][Next]_vars

\* ------------------------------------------------- outbound channels
\* the frames of one step that were written to socket w, in send order
ToSocket(frames, w) == SelectSeq(frames, LAMBDA f : f.to = w)

\* what the log keeps of a written frame: its type, the session it names
\* and the reading of the clock at which its command was handled
Tag(frames, now) ==
  [i \in 1..Len(frames) |->
     [type      |-> frames[i].ev.type,
      sessionId |-> IF "sessionId" \in DOMAIN frames[i].ev
                    THEN frames[i].ev.sessionId ELSE "none",
      cmd       |-> now]]

\* mutant of Record: the frames of a step are put in front of the channel
Record_InFront ==
  log' = [w \in Sockets |-> Tag(ToSocket(sent', w), clock') \o log[w]]

\* ws.send: each socket's channel keeps the frames in the order of the calls
Record ==
  log' = [w \in Sockets |-> log[w] \o Tag(ToSocket(sent', w), clock')]

\* the service with its channels logged and no hook attached
Logged == Record /\ UNCHANGED <<inbox, replica, hook>>

\* the payloads of the commands whose order is observed: the order of the
\* frames does not depend on what an idea or an update carries
OrderIdeaIds == {"idea1", "idea3"}
OrderIdeas   == {[id |-> "idea3", connections |-> <<>>, votes |-> 0]}
OrderUpdates == {[text |-> "t"]}

NextOrder ==
  \/ \E w \in Sockets : Connect(w) /\ Logged
  \/ \E w \in Sockets : BeginClose(w) /\ Logged
  \/ \E w \in Sockets : Close(w) /\ Logged
  \/ \E w \in Sockets, s \in SessionIds, u \in UserIds : Join(w, s, u) /\ Logged
  \/ \E w \in Sockets, s \in SessionIds : JoinNoUser(w, s) /\ Logged
  \/ \E w \in Sockets, s \in SessionIds, u \in UserIds : Leave(w, s, u) /\ Logged
  \/ \E w \in Sockets, s \in SessionIds, u \in UserIds, pt \in CursorPoints :
        CursorMove(w, s, u, pt) /\ Logged
  \/ \E w \in Sockets, s \in SessionIds, idea \in OrderIdeas : AddIdea(w, s, idea) /\ Logged
  \/ \E w \in Sockets, s \in SessionIds, i \in OrderIdeaIds : DeleteIdea(w, s, i) /\ Logged
  \/ \E w \in Sockets, s \in SessionIds, i \in OrderIdeaIds, up \in OrderUpdates :
        UpdateIdea(w, s, i, up) /\ Logged
  \/ \E w \in Sockets, s \in SessionIds, a \in OrderIdeaIds, b \in OrderIdeaIds :
        AddConnection(w, s, a, b) /\ Logged
  \/ \E w \in Sockets, s \in SessionIds, a \in OrderIdeaIds, b \in OrderIdeaIds :
        RemoveConnection(w, s, a, b) /\ Logged
  \/ \E w \in Sockets, s \in SessionIds, i \in OrderIdeaIds, u \in UserIds :
        Vote(w, s, i, u) /\ Logged
  \/ \E w \in Sockets : BadFrame(w) /\ Logged
  \/ \E w \in Sockets : UnknownType(w) /\ Logged

SpecOrder == Init /\ [][NextOrder]_vars

\* ------------------------------------------------------ the client hook
\* a frame as it travels to the hook: the event, and the ideas the session
\* it names had on the server when the event was emitted
Stamp(frames, ss) ==
  [i \in 1..Len(frames) |->
     [ev    |-> frames[i].ev,
      ideas |-> IF "sessionId" \in DOMAIN frames[i].ev
                   /\ frames[i].ev.sessionId \in DOMAIN ss
                THEN ss[frames[i].ev.sessionId].ideas ELSE <<>>]]

\* the frames of the step that were written to socket w reach the hook's
\* onmessage queue in send order
Enqueue(w) == inbox' = inbox \o Stamp(ToSocket(sent', w), sessions')

\* case "idea-deleted": filter the idea out, then strip its id
ClientDeleteIdea(ideas, ideaId) ==
  LET updatedIdeas == SelectSeq(ideas, LAMBDA idea : idea.id # ideaId)
  IN [i \in 1..Len(updatedIdeas) |->
        [updatedIdeas[i] EXCEPT !.connections = Without(@, ideaId)]]

\* case "idea-updated": every idea with that id gets { ...idea, ...updates }
ClientUpdateIdea(ideas, ideaId, updates) ==
  [i \in 1..Len(ideas) |->
     IF ideas[i].id = ideaId THEN MergeIdea(ideas[i], updates) ELSE ideas[i]]

\* case "connection-added": push on the source and on the target found
ClientAddConnection(ideas, sourceId, targetId) ==
  LET afterSource == PushConnection(ideas, FindIndex(ideas, sourceId), targetId)
  IN PushConnection(afterSource, FindIndex(ideas, targetId), sourceId)

\* case "connection-removed": map over every idea
ClientRemoveConnection(ideas, sourceId, targetId) ==
  [i \in 1..Len(ideas) |->
     IF ideas[i].id = sourceId
     THEN [ideas[i] EXCEPT !.connections = Without(@, targetId)]
     ELSE IF ideas[i].id = targetId
          THEN [ideas[i] EXCEPT !.connections = Without(@, sourceId)]
          ELSE ideas[i]]

\* case "idea-voted": every idea with that id gets votes: newVoteCount
ClientVote(ideas, ideaId, newVoteCount) ==
  [i \in 1..Len(ideas) |->
     IF ideas[i].id = ideaId THEN [ideas[i] EXCEPT !.votes = newVoteCount]
     ELSE ideas[i]]

\* handleIncomingMessage on the ideas of state.session
ClientIdeas(ideas, ev) ==
  CASE ev.type = "idea-added" -> Append(ideas, ev.idea)
    [] ev.type = "idea-deleted" -> ClientDeleteIdea(ideas, ev.ideaId)
    [] ev.type = "idea-updated" -> ClientUpdateIdea(ideas, ev.ideaId, ev.updates)
    [] ev.type = "connection-added" -> ClientAddConnection(ideas, ev.sourceId, ev.targetId)
    [] ev.type = "connection-removed" ->
         ClientRemoveConnection(ideas, ev.sourceId, ev.targetId)
    [] ev.type = "idea-voted" -> ClientVote(ideas, ev.ideaId, ev.newVoteCount)
    [] OTHER -> ideas

\* handleIncomingMessage: the state after the event
handleIncomingMessage(r, ev) ==
  IF "sessionId" \notin DOMAIN ev \/ ev.sessionId # r.current THEN r
  ELSE IF ev.type = "session-state"
       THEN [r EXCEPT !.session = [set |-> TRUE, ideas |-> ev.state.ideas]]
       ELSE IF ~r.session.set THEN r
            ELSE [r EXCEPT !.session.ideas = ClientIdeas(@, ev)]

\* connectWebSocket and ws.onopen: the hook's socket is accepted
HookConnect(w) ==
  /\ hook.ws = 0
  /\ Connect(w)
  /\ hook' = [hook EXCEPT !.ws = w, !.status = "connected"]

\* a step of the hook that puts no frame on the wire
ClientStep(type) ==
  /\ last' = [type |-> type]
  /\ sent' = <<>>
  /\ UNCHANGED <<sessions, clients, readyState, clock>>

\* joinSession(sessionId, user): currentSessionId is set, and sendMessage
\* sends the join only while the socket is OPEN; a join that is sent is
\* handled by the server
HookJoin(s) ==
  /\ hook.ws # 0
  /\ IF readyState[hook.ws] = "open"
     THEN /\ Join(hook.ws, s, HookUser)
          /\ replica' = [replica EXCEPT !.current = s, !.joins = @ + 1]
     ELSE /\ ClientStep("joinSession")
          /\ replica' = [replica EXCEPT !.current = s]

\* ws.onmessage: the next frame is parsed and handled
OnMessage ==
  /\ inbox # <<>>
  /\ replica' = handleIncomingMessage(replica, Head(inbox).ev)
  /\ inbox' = Tail(inbox)
  /\ last' = [type |-> "onmessage", ev |-> Head(inbox).ev, ideas |-> Head(inbox).ideas]
  /\ sent' = <<>>
  /\ UNCHANGED <<sessions, clients, readyState, clock, log, hook>>

\* a frame from another client is handled by the service while the hook listens
Peer(w) == hook.ws # 0 /\ w # hook.ws /\ Enqueue(hook.ws) /\ UNCHANGED <<log, replica, hook>>

NextReplica ==
  \/ \E w \in Sockets : HookConnect(w) /\ Enqueue(w) /\ UNCHANGED <<log, replica>>
  \/ \E s \in SessionIds : HookJoin(s) /\ Enqueue(hook.ws) /\ UNCHANGED <<log, hook>>
  \/ OnMessage
  \/ \E w \in Sockets : Connect(w) /\ Peer(w)
  \/ \E w \in Sockets : Close(w) /\ Peer(w)
  \/ \E w \in Sockets, s \in SessionIds, u \in UserIds : Join(w, s, u) /\ Peer(w)
  \/ \E w \in Sockets, s \in SessionIds, u \in UserIds : Leave(w, s, u) /\ Peer(w)
  \/ \E w \in Sockets, s \in SessionIds, u \in UserIds, pt \in CursorPoints :
        CursorMove(w, s, u, pt) /\ Peer(w)
  \/ \E w \in Sockets, s \in SessionIds, idea \in PayloadIdeas : AddIdea(w, s, idea) /\ Peer(w)
  \/ \E w \in Sockets, s \in SessionIds, i \in IdeaIds : DeleteIdea(w, s, i) /\ Peer(w)
  \/ \E w \in Sockets, s \in SessionIds, i \in IdeaIds, up \in PayloadUpdates :
        UpdateIdea(w, s, i, up) /\ Peer(w)
  \/ \E w \in Sockets, s \in SessionIds, a \in IdeaIds, b \in IdeaIds :
        AddConnection(w, s, a, b) /\ Peer(w)
  \/ \E w \in Sockets, s \in SessionIds, a \in IdeaIds, b \in IdeaIds :
        RemoveConnection(w, s, a, b) /\ Peer(w)
  \/ \E w \in Sockets, s \in SessionIds, i \in IdeaIds, u \in UserIds :
        Vote(w, s, i, u) /\ Peer(w)

SpecReplica == Init /\ [][NextReplica]_vars

\* ------------------------------------------------------- reconnection
\* the socket the network drops; the hook's next socket is not dropped, so
\* that a socket is always left for the reconnection
DroppedSocket == 1

\* the clock's last tick is kept for the close handler of the dropped socket
Headroom == hook.ws = DroppedSocket => clock + 1 < MaxClock

\* leaveSession: leave is sent if the socket is OPEN, then currentSessionId
\* and state.session are cleared
HookLeave ==
  /\ hook.ws # 0
  /\ replica.current # "none"
  /\ Headroom
  /\ IF readyState[hook.ws] = "open"
     THEN Leave(hook.ws, replica.current, HookUser)
     ELSE ClientStep("leaveSession")
  /\ replica' = [replica EXCEPT !.current = "none", !.session = NullSession]
  /\ Enqueue(hook.ws)
  /\ UNCHANGED <<log, hook>>

\* sendCursorPosition(x, y) on an OPEN socket
HookCursor(pt) ==
  /\ hook.ws # 0
  /\ replica.current # "none"
  /\ Headroom
  /\ CursorMove(hook.ws, replica.current, HookUser, pt)
  /\ Enqueue(hook.ws)
  /\ UNCHANGED <<log, replica, hook>>

\* voteForIdea(ideaId) on an OPEN socket
HookVote(ideaId) ==
  /\ hook.ws # 0
  /\ replica.current # "none"
  /\ Headroom
  /\ Vote(hook.ws, replica.current, ideaId, HookUser)
  /\ Enqueue(hook.ws)
  /\ UNCHANGED <<log, replica, hook>>

\* the user picks a session: joinSession
HookJoins(s) ==
  /\ Headroom
  /\ HookJoin(s)
  /\ Enqueue(hook.ws)
  /\ UNCHANGED <<log, hook>>

\* the hook is mounted: connectWebSocket, and the server accepts
HookMount ==
  /\ \E w \in Sockets : HookConnect(w) /\ Enqueue(w)
  /\ UNCHANGED <<log, replica>>

\* the network drops the hook's connection
HookDrop ==
  /\ hook.ws = DroppedSocket
  /\ BeginClose(hook.ws)
  /\ UNCHANGED <<log, inbox, replica, hook>>

\* the server's "close" handler for the socket that was dropped
ServerClose ==
  /\ readyState[DroppedSocket] = "closing"
  /\ Close(DroppedSocket)
  /\ UNCHANGED <<log, inbox, replica, hook>>

\* ws.onclose, fired after the messages that arrived before it: the status
\* becomes "disconnected" and the 5 s timer is set for this socket
HookOnClose ==
  /\ hook.ws # 0
  /\ readyState[hook.ws] \in {"closing", "closed"}
  /\ hook.status = "connected"
  /\ inbox = <<>>
  /\ hook' = [hook EXCEPT !.status = "disconnected", !.timer = hook.ws]
  /\ ClientStep("onclose")
  /\ UNCHANGED <<log, inbox, replica>>

\* the timer fires: if (wsRef.current === ws) connectWebSocket(); the new
\* socket opens and ws.onopen sets the status to "connected"
HookTimer ==
  /\ hook.timer # 0
  /\ hook.ws = hook.timer
  /\ \E w \in Sockets :
        /\ Connect(w)
        /\ hook' = [ws |-> w, status |-> "connected", timer |-> 0]
        /\ Enqueue(w)
  /\ UNCHANGED <<log, replica>>

NextReconnect ==
  \/ HookMount
  \/ \E s \in SessionIds : HookJoins(s)
  \/ HookLeave
  \/ \E pt \in CursorPoints : HookCursor(pt)
  \/ \E i \in IdeaIds : HookVote(i)
  \/ OnMessage
  \/ HookDrop
  \/ ServerClose
  \/ HookOnClose
  \/ HookTimer

\* the browser delivers the messages, the close event and the timer, and the
\* server its close event; what the user and the network do is not forced
SpecReconnect ==
  /\ Init
  /\ [][NextReconnect]_vars
  /\ WF_vars(OnMessage)
  /\ WF_vars(ServerClose)
  /\ WF_vars(HookOnClose)
  /\ WF_vars(HookTimer)

\* ================================================================ claims
\* session.ideas.find(idea => idea.id === id) succeeds
HasIdea(ideas, id) == FindIndex(ideas, id) # 0

\* the idea session.ideas.find(idea => idea.id === id) returns
IdeaOf(ideas, id) == ideas[FindIndex(ideas, id)]

\* the frames of the latest step that were written to socket w
FramesTo(frames, w, type) ==
  {i \in 1..Len(frames) : frames[i].to = w /\ frames[i].ev.type = type}

\* the sockets that hold an entry for session s in the registry cs
RegisteredFor(cs, s) == {cs[i].ws : i \in {j \in 1..Len(cs) : cs[j].sessionId = s}}

\* for all idea ids A, B present: A.connections has B iff B.connections has A
Symmetric(ideas) ==
  \A a \in IdeaIds, b \in IdeaIds :
    (HasIdea(ideas, a) /\ HasIdea(ideas, b)) =>
      (Includes(IdeaOf(ideas, a).connections, b)
         <=> Includes(IdeaOf(ideas, b).connections, a))

\* C1: symmetry holds when the service starts, and every add-connection,
\* remove-connection and delete-idea command handled on a session whose
\* connections are symmetric leaves them symmetric.
C1_SymmetryPreserved ==
  /\ \A s \in DOMAIN sessions : Symmetric(sessions[s].ideas)
  /\ [][ (/\ last'.type \in {"add-connection", "remove-connection", "delete-idea"}
          /\ last'.sessionId \in DOMAIN sessions
          /\ Symmetric(sessions[last'.sessionId].ideas))
        => Symmetric(sessions'[last'.sessionId].ideas) ]_vars

\* C1 witness: add-connection(idea3, B) has linked two distinct ideas both ways
C1_Witness ==
  /\ last.type = "add-connection"
  /\ last.sourceId = "idea3" /\ last.targetId # "idea3"
  /\ last.sessionId \in DOMAIN sessions
  /\ LET ideas == sessions[last.sessionId].ideas
     IN /\ HasIdea(ideas, last.sourceId) /\ HasIdea(ideas, last.targetId)
        /\ Includes(IdeaOf(ideas, last.sourceId).connections, last.targetId)
        /\ Includes(IdeaOf(ideas, last.targetId).connections, last.sourceId)
        /\ Symmetric(ideas)

\* C2: in every reachable state, every id in an idea's connections is the
\* id of an idea of the same session.
C2_NoDanglingConnection ==
  \A s \in DOMAIN sessions :
    \A i \in 1..Len(sessions[s].ideas) :
      \A k \in 1..Len(sessions[s].ideas[i].connections) :
        HasIdea(sessions[s].ideas, sessions[s].ideas[i].connections[k])

\* C3: add-connection with sourceId = targetId = A on an existing idea A
\* leaves the ideas unchanged and A.connections without A.
C3_SelfConnectionIgnored ==
  [][ (/\ last'.type = "add-connection"
       /\ last'.sourceId = last'.targetId
       /\ last'.sessionId \in DOMAIN sessions
       /\ HasIdea(sessions[last'.sessionId].ideas, last'.sourceId))
      => /\ sessions'[last'.sessionId].ideas = sessions[last'.sessionId].ideas
         /\ ~Includes(IdeaOf(sessions'[last'.sessionId].ideas, last'.sourceId).connections,
                      last'.sourceId) ]_vars

\* C4: no cursor-move frame is written to the socket that sent the
\* cursor-move command.
C4_CursorMoveNotEchoed ==
  last.type = "cursor-move" => FramesTo(sent, last.ws, "cursor-move") = {}

\* C5: a join writes to the joining socket its session-state snapshot and
\* nothing else; in particular no user-joined frame.
C5_JoinerGetsOnlySnapshot ==
  last.type = "join" =>
    /\ FramesTo(sent, last.ws, "user-joined") = {}
    /\ Cardinality({i \in 1..Len(sent) : sent[i].to = last.ws}) = 1

\* the session a join finds or creates, as it is before the join
BeforeJoin(s) == getOrCreate(sessions, s, clock)

\* the snapshot part of C6: the first frame of a join goes to the joiner and
\* is the session-state of s with the users already present plus u and the
\* current ideas; every later frame is a user-joined carrying u
JoinSnapshotFirst(w, s, u) ==
  /\ Len(sent') >= 1
  /\ sent'[1].to = w
  /\ sent'[1].ev.type = "session-state"
  /\ sent'[1].ev.sessionId = s
  /\ DOMAIN sent'[1].ev.state.users = DOMAIN BeforeJoin(s).users \cup {u}
  /\ sent'[1].ev.state.ideas = BeforeJoin(s).ideas
  /\ (s \notin DOMAIN sessions => sent'[1].ev.state.ideas = <<>>)
  /\ \A i \in 2..Len(sent') :
       sent'[i].ev.type = "user-joined" /\ sent'[i].ev.user = u

\* C6 as claimed: a join sends the snapshot first, and every other socket
\* registered for s gets a user-joined frame.
C6_JoinNotifiesEveryOther ==
  [][ last'.type = "join" =>
        /\ JoinSnapshotFirst(last'.ws, last'.sessionId, last'.userId)
        /\ \A c \in RegisteredFor(clients', last'.sessionId) \ {last'.ws} :
             FramesTo(sent', c, "user-joined") # {} ]_vars

\* C6 amended: a join sends the snapshot first, and every other socket that
\* is open and registered for s under a user id other than u gets a
\* user-joined frame.
C6_JoinNotifiesOtherUsers ==
  [][ last'.type = "join" =>
        /\ JoinSnapshotFirst(last'.ws, last'.sessionId, last'.userId)
        /\ \A i \in 1..Len(clients') :
             (/\ clients'[i].sessionId = last'.sessionId
              /\ clients'[i].ws # last'.ws
              /\ clients'[i].userId # last'.userId
              /\ readyState[clients'[i].ws] = "open")
             => FramesTo(sent', clients'[i].ws, "user-joined") # {} ]_vars

\* C6 witness: a second user has joined; the joiner got the snapshot with
\* both users first, then the other socket got user-joined
C6_Witness ==
  /\ last.type = "join"
  /\ Len(sent) = 2
  /\ sent[1].to = last.ws /\ sent[1].ev.type = "session-state"
  /\ Cardinality(DOMAIN sent[1].ev.state.users) = 2
  /\ sent[2].to # last.ws /\ sent[2].ev.type = "user-joined"
  /\ sent[2].ev.user = last.userId

\* C7: when the socket registered for (u, s) closes, u leaves s.users, the
\* socket leaves the registry, every remaining open socket registered for s
\* gets user-left for u, and the directory userCount of s drops by one.
C7_CloseRemovesUser ==
  [][ (last'.type = "close" /\ last'.registered) =>
        LET s == last'.sessionId
            u == last'.userId
        IN /\ u \notin DOMAIN sessions'[s].users
           /\ \A i \in 1..Len(clients') : clients'[i].ws # last'.ws
           /\ \A c \in RegisteredFor(clients', s) :
                readyState'[c] = "open" =>
                  \E i \in FramesTo(sent', c, "user-left") : sent'[i].ev.userId = u
           /\ getSessions(sessions')[s].userCount
                = getSessions(sessions)[s].userCount - 1 ]_vars

\* C8: delete-idea(X) on an existing idea removes X and every reference to
\* X in one step, and every open socket registered for the session gets
\* exactly one idea-deleted frame for X.
C8_DeleteIdeaBroadcastOnce ==
  [][ (/\ last'.type = "delete-idea"
       /\ last'.sessionId \in DOMAIN sessions
       /\ HasIdea(sessions[last'.sessionId].ideas, last'.ideaId)) =>
        LET s     == last'.sessionId
            x     == last'.ideaId
            ideas == sessions'[s].ideas
        IN /\ ~HasIdea(ideas, x)
           /\ \A i \in 1..Len(ideas) : ~Includes(ideas[i].connections, x)
           /\ \A c \in RegisteredFor(clients, s) :
                readyState[c] = "open" =>
                  /\ Cardinality(FramesTo(sent', c, "idea-deleted")) = 1
                  /\ \A i \in FramesTo(sent', c, "idea-deleted") :
                       sent'[i].ev.ideaId = x ]_vars

\* the command of the latest step names something that does not exist, in
\* one of the ways C9 lists (read in the state before the step)
RefersToAbsent(cmd) ==
  /\ cmd.type \in {"leave", "cursor-move", "add-idea", "delete-idea", "update-idea",
                    "add-connection", "remove-connection", "vote"}
  /\ \/ cmd.sessionId \notin DOMAIN sessions
     \/ /\ cmd.type = "add-connection"
        /\ \/ ~HasIdea(sessions[cmd.sessionId].ideas, cmd.sourceId)
           \/ ~HasIdea(sessions[cmd.sessionId].ideas, cmd.targetId)
     \/ /\ cmd.type \in {"vote", "update-idea"}
        /\ ~HasIdea(sessions[cmd.sessionId].ideas, cmd.ideaId)
     \/ /\ cmd.type = "cursor-move"
        /\ cmd.userId \notin DOMAIN sessions[cmd.sessionId].users

\* C9: a command that names an absent idea (add-connection, vote,
\* update-idea), an absent user (cursor-move) or an unknown session (any
\* command but join) changes no session and no registry entry and writes no
\* frame at all, so neither a broadcast nor an error.
C9_AbsentReferenceIsNoOp ==
  [][ RefersToAbsent(last') =>
        /\ sessions' = sessions
        /\ clients' = clients
        /\ sent' = <<>> ]_vars

\* C9 witness: add-connection from an existing idea to an absent one was
\* handled while an open socket was registered for the session
C9_Witness ==
  /\ last.type = "add-connection"
  /\ last.sessionId \in DOMAIN sessions
  /\ HasIdea(sessions[last.sessionId].ideas, last.sourceId)
  /\ ~HasIdea(sessions[last.sessionId].ideas, last.targetId)
  /\ \E c \in RegisteredFor(clients, last.sessionId) : readyState[c] = "open"
  /\ sent = <<>>

\* C10: delete-idea naming an id absent from an existing session leaves the
\* sessions (ideas, connections, lastActive) unchanged and writes no frame.
C10_DeleteAbsentIsNoOp ==
  [][ (/\ last'.type = "delete-idea"
       /\ last'.sessionId \in DOMAIN sessions
       /\ ~HasIdea(sessions[last'.sessionId].ideas, last'.ideaId))
      => (sessions' = sessions /\ sent' = <<>>) ]_vars

\* C11: an unparseable frame or a message of unknown type writes exactly one
\* frame, an error event to the socket that sent it, changes no session and
\* no registry entry, and leaves that socket open.
C11_ProtocolErrorOnlyToSender ==
  [][ last'.type \in {"bad-frame", "unknown-type"} =>
        /\ sessions' = sessions
        /\ clients' = clients
        /\ readyState' = readyState
        /\ readyState'[last'.ws] = "open"
        /\ Len(sent') = 1
        /\ sent'[1].to = last'.ws
        /\ sent'[1].ev.type = "error" ]_vars

\* C11 witness: a message of unknown type came from a socket registered for
\* a session that another open socket is registered for too, and the one
\* frame written is the error to the sender
C11_Witness ==
  /\ last.type = "unknown-type"
  /\ \E s \in DOMAIN sessions :
       /\ last.ws \in RegisteredFor(clients, s)
       /\ \E c \in RegisteredFor(clients, s) \ {last.ws} : readyState[c] = "open"
  /\ Len(sent) = 1 /\ sent[1].to = last.ws /\ sent[1].ev.type = "error"

\* C12: a vote on an existing idea I raises I.votes by exactly 1 whoever the
\* message names as voter, leaves every other idea and every other field of
\* I as it was, and every idea-voted frame carries the resulting count.
C12_VoteAddsOne ==
  [][ (/\ last'.type = "vote"
       /\ last'.sessionId \in DOMAIN sessions
       /\ HasIdea(sessions[last'.sessionId].ideas, last'.ideaId)) =>
        LET before == sessions[last'.sessionId].ideas
            after  == sessions'[last'.sessionId].ideas
            i      == FindIndex(before, last'.ideaId)
        IN /\ Len(after) = Len(before)
           /\ after[i].votes = before[i].votes + 1
           /\ after[i].id = before[i].id
           /\ after[i].connections = before[i].connections
           /\ \A j \in 1..Len(before) : j # i => after[j] = before[j]
           /\ \A k \in 1..Len(sent') :
                /\ sent'[k].ev.type = "idea-voted"
                /\ sent'[k].ev.ideaId = last'.ideaId
                /\ sent'[k].ev.newVoteCount = after[i].votes ]_vars

\* C12 witness: the first idea of the demo session has been voted on twice
\* and the idea-voted frame of the second vote carries the count
C12_Witness ==
  /\ last.type = "vote" /\ last.ideaId = "idea1" /\ last.sessionId = DemoSessionId
  /\ sessions[DemoSessionId].ideas[1].votes = DemoVotes1 + 2
  /\ sessions[DemoSessionId].ideas[2].votes = DemoVotes2
  /\ Len(sent) >= 1
  /\ sent[1].ev.newVoteCount = DemoVotes1 + 2

\* the number of positions of a connections array that hold id
Occurrences(conns, id) == Cardinality({i \in 1..Len(conns) : conns[i] = id})

\* C13: when add-connection(A, B), A # B, both ideas present, is handled
\* right after the same command, the ideas stay as the first one left them,
\* B occurs exactly once in A.connections and A exactly once in
\* B.connections.
C13_AddConnectionTwiceAsOnce ==
  [][ (/\ last.type = "add-connection" /\ last'.type = "add-connection"
       /\ last'.sessionId = last.sessionId
       /\ last'.sourceId = last.sourceId /\ last'.targetId = last.targetId
       /\ last'.sourceId # last'.targetId
       /\ last'.sessionId \in DOMAIN sessions
       /\ HasIdea(sessions[last'.sessionId].ideas, last'.sourceId)
       /\ HasIdea(sessions[last'.sessionId].ideas, last'.targetId)) =>
        LET after == sessions'[last'.sessionId].ideas
        IN /\ after = sessions[last'.sessionId].ideas
           /\ Occurrences(IdeaOf(after, last'.sourceId).connections, last'.targetId) = 1
           /\ Occurrences(IdeaOf(after, last'.targetId).connections, last'.sourceId) = 1
    ]_vars

\* A and B are connected: the idea found for one id lists the other id
Connected(ideas, a, b) ==
  \/ HasIdea(ideas, a) /\ Includes(IdeaOf(ideas, a).connections, b)
  \/ HasIdea(ideas, b) /\ Includes(IdeaOf(ideas, b).connections, a)

\* C14: remove-connection(A, B) on an existing session in which A and B are
\* not connected leaves the session (ideas, users, lastActive) as it was.
C14_RemoveAbsentEdgeIsNoOp ==
  [][ (/\ last'.type = "remove-connection"
       /\ last'.sessionId \in DOMAIN sessions
       /\ ~Connected(sessions[last'.sessionId].ideas, last'.sourceId, last'.targetId))
      => sessions'[last'.sessionId] = sessions[last'.sessionId] ]_vars

\* C15: in every state the directory lists every session of the Map with
\* userCount equal to the number of entries of its users map and ideaCount
\* equal to the number of its ideas; the sessions-list a new connection is
\* sent carries the same live counts.
C15_DirectoryCountsLive ==
  /\ DOMAIN getSessions(sessions) = DOMAIN sessions
  /\ \A s \in DOMAIN sessions :
       /\ getSessions(sessions)[s].userCount = Cardinality(DOMAIN sessions[s].users)
       /\ getSessions(sessions)[s].ideaCount = Len(sessions[s].ideas)
  /\ last.type = "connection" =>
       /\ DOMAIN sent[1].ev.sessions = DOMAIN sessions
       /\ \A s \in DOMAIN sessions :
            /\ sent[1].ev.sessions[s].userCount = Cardinality(DOMAIN sessions[s].users)
            /\ sent[1].ev.sessions[s].ideaCount = Len(sessions[s].ideas)

\* C15 witness: after a join, an add-idea and the leave of the only user the
\* directory of the demo session reads no user and three ideas
C15_Witness ==
  /\ last.type = "leave"
  /\ sessions[DemoSessionId].users = NoUsers
  /\ Len(sessions[DemoSessionId].ideas) = 3
  /\ Len(sent) >= 1
  /\ getSessions(sessions)[DemoSessionId].userCount = 0
  /\ getSessions(sessions)[DemoSessionId].ideaCount = 3

\* C16: add-idea on an existing session appends the idea, every open socket
\* registered for the session (the sender's, when registered) gets an
\* idea-added frame carrying it, and the directory ideaCount grows by one.
C16_AddIdeaReachesAll ==
  [][ (last'.type = "add-idea" /\ last'.sessionId \in DOMAIN sessions) =>
        LET s      == last'.sessionId
            before == sessions[s].ideas
            after  == sessions'[s].ideas
        IN /\ Len(after) = Len(before) + 1
           /\ SubSeq(after, 1, Len(before)) = before
           /\ after[Len(after)].id = last'.ideaId
           /\ \A c \in RegisteredFor(clients, s) :
                readyState[c] = "open" =>
                  \E k \in FramesTo(sent', c, "idea-added") :
                    sent'[k].ev.idea = after[Len(after)]
           /\ getSessions(sessions')[s].ideaCount
                = getSessions(sessions)[s].ideaCount + 1 ]_vars

\* C16 witness: two open sockets are registered for the session of the
\* add-idea, the sender is one of them, and both got idea-added
C16_Witness ==
  /\ last.type = "add-idea"
  /\ last.sessionId \in DOMAIN sessions
  /\ last.ws \in RegisteredFor(clients, last.sessionId)
  /\ Cardinality(RegisteredFor(clients, last.sessionId)) = 2
  /\ \A c \in RegisteredFor(clients, last.sessionId) :
       readyState[c] = "open" /\ FramesTo(sent, c, "idea-added") # {}

\* the socket holds a registry entry for the session
JoinedTo(cs, w, s) == \E i \in 1..Len(cs) : cs[i].ws = w /\ cs[i].sessionId = s

\* C17: a command other than join sent by a socket that holds no registry
\* entry for the session it names changes no session and writes no frame.
C17_OnlyJoinedSenderActs ==
  [][ (/\ last'.type \in {"leave", "cursor-move", "add-idea", "delete-idea",
                          "update-idea", "add-connection", "remove-connection", "vote"}
       /\ ~JoinedTo(clients, last'.ws, last'.sessionId))
      => (sessions' = sessions /\ sent' = <<>>) ]_vars

\* C18: in every state no two registry entries hold the same socket.
C18_OneEntryPerConnection ==
  \A i \in 1..Len(clients), j \in 1..Len(clients) :
    clients[i].ws = clients[j].ws => i = j

\* the handler of the command reaches broadcastToSession (read before the step)
Broadcasts(cmd) ==
  CASE cmd.type = "join" -> TRUE
    [] cmd.type = "close" -> cmd.registered
    [] cmd.type = "leave" -> FindClientByUser(clients, cmd.userId, cmd.sessionId) # 0
    [] cmd.type = "cursor-move" ->
         /\ cmd.sessionId \in DOMAIN sessions
         /\ cmd.userId \in DOMAIN sessions[cmd.sessionId].users
    [] cmd.type \in {"add-idea", "delete-idea", "remove-connection"} ->
         cmd.sessionId \in DOMAIN sessions
    [] cmd.type \in {"update-idea", "vote"} ->
         /\ cmd.sessionId \in DOMAIN sessions
         /\ HasIdea(sessions[cmd.sessionId].ideas, cmd.ideaId)
    [] cmd.type = "add-connection" ->
         /\ cmd.sessionId \in DOMAIN sessions
         /\ HasIdea(sessions[cmd.sessionId].ideas, cmd.sourceId)
         /\ HasIdea(sessions[cmd.sessionId].ideas, cmd.targetId)
    [] OTHER -> FALSE

\* the event a command broadcasts
EventOf(type) ==
  CASE type = "join" -> "user-joined"
    [] type \in {"leave", "close"} -> "user-left"
    [] type = "cursor-move" -> "cursor-move"
    [] type = "add-idea" -> "idea-added"
    [] type = "delete-idea" -> "idea-deleted"
    [] type = "update-idea" -> "idea-updated"
    [] type = "add-connection" -> "connection-added"
    [] type = "remove-connection" -> "connection-removed"
    [] type = "vote" -> "idea-voted"

\* the user ids a command's broadcast excludes
ExcludedBy(cmd) == IF cmd.type \in {"join", "cursor-move"} THEN {cmd.userId} ELSE {}

\* C19: when a command broadcasts to a session for which a socket that is
\* not open is registered, every registered socket of the session that is
\* open and not excluded still gets the event, and no error frame is written
\* to anyone, the sender included.
C19_ClosedRecipientSkipped ==
  [][ LET R == IF last'.type = "join" THEN clients' ELSE clients
      IN (/\ Broadcasts(last')
          /\ \E i \in 1..Len(R) : /\ R[i].sessionId = last'.sessionId
                                   /\ readyState'[R[i].ws] # "open")
         => /\ \A i \in 1..Len(R) :
                 (/\ R[i].sessionId = last'.sessionId
                  /\ R[i].userId \notin ExcludedBy(last')
                  /\ readyState'[R[i].ws] = "open")
                 => FramesTo(sent', R[i].ws, EventOf(last'.type)) # {}
            /\ \A k \in 1..Len(sent') :
                 sent'[k].ev.type # "error" /\ readyState'[sent'[k].to] = "open"
    ]_vars

\* C19 witness: the first registered socket of the session is closing, the
\* second is open, and the idea-added broadcast reached the second
C19_Witness ==
  /\ last.type = "add-idea"
  /\ Len(clients) = 2
  /\ clients[1].sessionId = last.sessionId /\ clients[2].sessionId = last.sessionId
  /\ clients[1].ws # clients[2].ws
  /\ readyState[clients[1].ws] = "closing"
  /\ readyState[clients[2].ws] = "open"
  /\ Len(sent) = 1 /\ sent[1].to = clients[2].ws /\ sent[1].ev.type = "idea-added"

\* C20: a join message without a user object changes no session (none is
\* created, no user is added) and no registry entry.
C20_JoinWithoutUserRejected ==
  [][ last'.type = "join-no-user" => (sessions' = sessions /\ clients' = clients) ]_vars

\* the step handles a command (or a close) that acts on a session
ActsOnSession(cmd) ==
  \/ cmd.type \in {"join", "leave", "cursor-move", "add-idea", "delete-idea",
                   "update-idea", "add-connection", "remove-connection", "vote"}
  \/ cmd.type = "close" /\ cmd.registered

\* C21: a command (or disconnect) on an existing session that changes its
\* ideas or users advances the session's lastActive, and one that changes
\* neither leaves lastActive as it was.
C21_LastActiveTracksMutation ==
  [][ (ActsOnSession(last') /\ last'.sessionId \in DOMAIN sessions) =>
        LET before == sessions[last'.sessionId]
            after  == sessions'[last'.sessionId]
        IN IF before.ideas # after.ideas \/ before.users # after.users
           THEN after.lastActive > before.lastActive
           ELSE after.lastActive = before.lastActive ]_vars

\* C22: across every step, an idea that exists before and after has a vote
\* count that is a natural number and not lower than before.
C22_VotesNeverDecrease ==
  [][ \A s \in DOMAIN sessions, id \in IdeaIds :
        (HasIdea(sessions[s].ideas, id) /\ HasIdea(sessions'[s].ideas, id)) =>
          /\ IdeaOf(sessions'[s].ideas, id).votes \in Nat
          /\ IdeaOf(sessions'[s].ideas, id).votes >= IdeaOf(sessions[s].ideas, id).votes
    ]_vars

\* C23: in every state no two ideas of a session have the same id.
C23_IdeaIdsUnique ==
  \A s \in DOMAIN sessions :
    \A i \in 1..Len(sessions[s].ideas), j \in 1..Len(sessions[s].ideas) :
      sessions[s].ideas[i].id = sessions[s].ideas[j].id => i = j

\* the user ids of the registry entries of session s
RegisteredUsers(cs, s) == {cs[i].userId : i \in {j \in 1..Len(cs) : cs[j].sessionId = s}}

\* C26: in every state, for every session, the ids of its users map are the
\* user ids of the registry entries of that session.
C26_UsersMatchRegistry ==
  \A s \in DOMAIN sessions : DOMAIN sessions[s].users = RegisteredUsers(clients, s)

\* the number of registry entries for user u in session s
EntriesFor(cs, u, s) ==
  Cardinality({i \in 1..Len(cs) : cs[i].userId = u /\ cs[i].sessionId = s})

\* C27: when the only registry entry of (u, s), hence a single join, has
\* just had its user-left broadcast by a leave, the next step does not
\* broadcast user-left for (u, s) again.
C27_OneUserLeftPerJoin ==
  [][ ~(/\ last.type = "leave"
        /\ EntriesFor(clients, last.userId, last.sessionId) = 1
        /\ last'.type \in {"leave", "close"}
        /\ Broadcasts(last')
        /\ last'.sessionId = last.sessionId
        /\ last'.userId = last.userId) ]_vars

\* C28: a leave that removes user u from the users map of s was sent by a
\* socket that holds the registry entry (u, s).
C28_LeaveOnlyByOwner ==
  [][ (/\ last'.type = "leave"
       /\ last'.sessionId \in DOMAIN sessions
       /\ last'.userId \in DOMAIN sessions[last'.sessionId].users
       /\ last'.userId \notin DOMAIN sessions'[last'.sessionId].users)
      => \E i \in 1..Len(clients) :
           /\ clients[i].ws = last'.ws
           /\ clients[i].userId = last'.userId
           /\ clients[i].sessionId = last'.sessionId ]_vars

\* C29: a command naming session s leaves every other session as it was,
\* creates no session but s, and every event it causes (every frame but an
\* error reply to the sender) goes to a socket registered for s.
C29_OnlyNamedSessionAffected ==
  [][ last'.type \in {"join", "join-no-user", "leave", "cursor-move", "add-idea",
                      "delete-idea", "update-idea", "add-connection",
                      "remove-connection", "vote"} =>
        /\ DOMAIN sessions' \subseteq DOMAIN sessions \cup {last'.sessionId}
        /\ \A x \in DOMAIN sessions \ {last'.sessionId} :
             x \in DOMAIN sessions' /\ sessions'[x] = sessions[x]
        /\ \A k \in 1..Len(sent') :
             sent'[k].ev.type # "error" =>
               /\ sent'[k].to \in RegisteredFor(clients', last'.sessionId)
               /\ sent'[k].ev.sessionId = last'.sessionId ]_vars

\* C29 witness: an add-idea on s1 was broadcast to the socket registered for
\* s1 while an open socket is registered for the demo session only
C29_Witness ==
  /\ last.type = "add-idea" /\ last.sessionId = "s1"
  /\ Len(sent) >= 1
  /\ \E c \in RegisteredFor(clients, DemoSessionId) \ RegisteredFor(clients, "s1") :
       readyState[c] = "open"
  /\ sessions[DemoSessionId].ideas = createDemoSession.ideas
  /\ sessions[DemoSessionId].lastActive = createDemoSession.lastActive

Core(ideas) ==
  [i \in 1..Len(ideas) |->
     [id |-> ideas[i].id, connections |-> ideas[i].connections, votes |-> ideas[i].votes]]

\* C30: when the hook has joined once and has just handled an event of its
\* current session, its replica is set and holds the same list of idea ids, with
\* the same connections and votes per idea, as the server's
\* session had when it emitted the event.
C30_ReplicaMatchesServer ==
  (/\ last.type = "onmessage"
   /\ replica.joins = 1
   /\ "sessionId" \in DOMAIN last.ev
   /\ last.ev.sessionId = replica.current)
  => /\ replica.session.set
     /\ Core(replica.session.ideas) = Core(last.ideas)

\* the hook's socket is open and registered on the server for the hook's
\* user and current session, and the user is in that session's users
Rejoined ==
  /\ hook.ws # 0
  /\ readyState[hook.ws] = "open"
  /\ replica.current \in DOMAIN sessions
  /\ HookUser \in DOMAIN sessions[replica.current].users
  /\ \E i \in 1..Len(clients) :
        clients[i] = [ws |-> hook.ws, userId |-> HookUser, sessionId |-> replica.current]

\* C25: once the hook's socket has closed while a session is current and its
\* snapshot has been received, the hook eventually has an open socket on which it has joined that session
\* again, the user being in the session's users, unless the session has
\* stopped being current or the clock has reached its bound, after which no
\* frame is handled.
C25_RejoinsAfterClose ==
  (/\ hook.status = "disconnected"
   /\ hook.timer # 0
   /\ replica.current # "none"
   /\ replica.session.set)
    ~> (replica.current = "none" \/ Rejoined \/ clock = MaxClock)

====
